---- MODULE Spec2Model ----
(***************************************************************************)
(* A model of src/fs.js: the Node-style facade `fs` over the host module   *)
(* expo-file-system.  The facade is the code under verification; the host  *)
(* calls it delegates to (readAsStringAsync, writeAsStringAsync, ...) are  *)
(* modelled as atomic operations on a small directory tree that settle at  *)
(* some instant after they were issued and may fail.                       *)
(*                                                                         *)
(* JavaScript strings are sequences of code points.  A value that may be   *)
(* `undefined` (an optional argument, a property lookup) is a tagged       *)
(* record: Undefined, Str(s), Bool(b), Obj(fields).                        *)
(***************************************************************************)
EXTENDS Integers, Sequences, FiniteSets, TLC

VARIABLES
    files,      \* the host's directory tree: path -> entry
    pc,         \* per caller: where its current call is suspended ("idle" if none)
    frame,      \* per caller: arguments and locals of the call in progress
    result,     \* per caller: how its last call settled (returned / threw)
    detached,   \* promise chains left behind by existsSync / readFileSync
    unhandled,  \* rejections no caller can observe (fs.js:183)
    calls,      \* calls issued so far
    faults,     \* host failures injected so far
    callers,    \* the callers that issue calls in this run
    lastWrite,  \* history: per path, the last completed writeFile not yet disturbed
    pair,       \* history: per path, a pair of appendFile calls being followed
    raced,      \* history: per caller, whether unlink cut into its pending append
    gone        \* history: per path, never created, or unlinked and not recreated

vars == <<files, pc, frame, result, detached, unhandled, calls, faults, callers,
          lastWrite, pair, raced, gone>>

(***************************************************************************)
(* Bounds of the model.                                                    *)
(***************************************************************************)
MaxCalls == 2
MaxFaults == 1

(***************************************************************************)
(* JavaScript values.                                                      *)
(***************************************************************************)
Undefined == [t |-> "undefined"]
Str(s) == [t |-> "string", s |-> s]
Bool(b) == [t |-> "boolean", b |-> b]
Obj(fields) == [t |-> "object", fields |-> fields]

\* ToBoolean: undefined, false and '' are falsy.
Truthy(v) ==
    CASE v.t = "undefined" -> FALSE
      [] v.t = "boolean" -> v.b
      [] v.t = "string" -> v.s # <<>>
      [] OTHER -> TRUE

\* a || b
Or(a, b) == IF Truthy(a) THEN a ELSE b

\* obj[key] / obj.key: undefined when the object has no such property.
Get(obj, key) == IF key \in DOMAIN obj.fields THEN obj.fields[key] ELSE Undefined

\* A parameter default (`encoding = 'utf8'`) applies exactly when the
\* argument is undefined.
Default(arg, dflt) == IF arg = Undefined THEN dflt ELSE arg

\* String.prototype.toUpperCase on the code points used here: a-z and the
\* Latin-1 lower-case letters map to their capitals, all else is unchanged.
UpperCode(c) ==
    IF (c >= 97 /\ c <= 122) \/ (c >= 224 /\ c <= 254 /\ c # 247) THEN c - 32 ELSE c

toUpperCase(v) == Str([i \in 1..Len(v.s) |-> UpperCode(v.s[i])])

(***************************************************************************)
(* expo-file-system's EncodingType, the enum imported at fs.js:1 and       *)
(* indexed at fs.js:13, 31 and 179.  The host declares                     *)
(*     enum EncodingType { UTF8 = 'utf8', Base64 = 'base64' }              *)
(* so its property names are "UTF8" and "Base64".                          *)
(***************************************************************************)
utf8 == <<117, 116, 102, 56>>                 \* 'utf8'
base64 == <<98, 97, 115, 101, 54, 52>>        \* 'base64'
KeyUTF8 == <<85, 84, 70, 56>>                 \* 'UTF8'
KeyBase64 == <<66, 97, 115, 101, 54, 52>>     \* 'Base64'

EncodingType == Obj((KeyUTF8 :> Str(utf8)) @@ (KeyBase64 :> Str(base64)))

(***************************************************************************)
(* Text codecs of the host.                                                *)
(***************************************************************************)
Utf8Char(c) ==
    IF c < 128 THEN <<c>> ELSE <<192 + (c \div 64), 128 + (c % 64)>>

RECURSIVE Utf8Encode(_)
Utf8Encode(text) ==
    IF text = <<>> THEN <<>> ELSE Utf8Char(Head(text)) \o Utf8Encode(Tail(text))

RECURSIVE Utf8Decode(_)
Utf8Decode(bytes) ==
    IF bytes = <<>> THEN <<>>
    ELSE IF bytes[1] < 128 THEN <<bytes[1]>> \o Utf8Decode(Tail(bytes))
    ELSE IF /\ bytes[1] >= 192 /\ bytes[1] < 224 /\ Len(bytes) >= 2
            /\ bytes[2] >= 128 /\ bytes[2] < 192
         THEN <<(bytes[1] - 192) * 64 + (bytes[2] - 128)>> \o Utf8Decode(Tail(Tail(bytes)))
    ELSE <<65533>> \o Utf8Decode(Tail(bytes))

\* The base-64 alphabet: A-Z a-z 0-9 + /
B64Char(i) ==
    IF i < 26 THEN 65 + i
    ELSE IF i < 52 THEN 97 + (i - 26)
    ELSE IF i < 62 THEN 48 + (i - 52)
    ELSE IF i = 62 THEN 43 ELSE 47

B64Index(c) ==
    IF c >= 65 /\ c <= 90 THEN c - 65
    ELSE IF c >= 97 /\ c <= 122 THEN c - 97 + 26
    ELSE IF c >= 48 /\ c <= 57 THEN c - 48 + 52
    ELSE IF c = 43 THEN 62
    ELSE IF c = 47 THEN 63 ELSE -1

RECURSIVE Base64Encode(_)
Base64Encode(bytes) ==
    IF bytes = <<>> THEN <<>>
    ELSE IF Len(bytes) = 1 THEN
        <<B64Char(bytes[1] \div 4), B64Char((bytes[1] % 4) * 16), 61, 61>>
    ELSE IF Len(bytes) = 2 THEN
        <<B64Char(bytes[1] \div 4),
          B64Char((bytes[1] % 4) * 16 + (bytes[2] \div 16)),
          B64Char((bytes[2] % 16) * 4), 61>>
    ELSE
        <<B64Char(bytes[1] \div 4),
          B64Char((bytes[1] % 4) * 16 + (bytes[2] \div 16)),
          B64Char((bytes[2] % 16) * 4 + (bytes[3] \div 64)),
          B64Char(bytes[3] % 64)>> \o Base64Encode(SubSeq(bytes, 4, Len(bytes)))

\* Decoding fails (ok = FALSE) on text that is not base-64.
RECURSIVE Base64Decode(_)
Base64Decode(text) ==
    IF text = <<>> THEN [ok |-> TRUE, bytes |-> <<>>]
    ELSE IF Len(text) < 4 \/ B64Index(text[1]) < 0 \/ B64Index(text[2]) < 0
         THEN [ok |-> FALSE, bytes |-> <<>>]
    ELSE LET a == B64Index(text[1])
             b == B64Index(text[2])
             c == B64Index(text[3])
             d == B64Index(text[4])
             b1 == a * 4 + (b \div 16)
             b2 == (b % 16) * 16 + (c \div 4)
             b3 == (c % 4) * 64 + d
             rest == Base64Decode(SubSeq(text, 5, Len(text)))
         IN  IF text[3] = 61 /\ text[4] = 61 /\ Len(text) = 4
                 THEN [ok |-> TRUE, bytes |-> <<b1>>]
             ELSE IF c >= 0 /\ text[4] = 61 /\ Len(text) = 4
                 THEN [ok |-> TRUE, bytes |-> <<b1, b2>>]
             ELSE IF c >= 0 /\ d >= 0
                 THEN [ok |-> rest.ok, bytes |-> <<b1, b2, b3>> \o rest.bytes]
             ELSE [ok |-> FALSE, bytes |-> <<>>]

(***************************************************************************)
(* The host's directory tree.  "/" always exists; the paths below are the  *)
(* ones the model can name.                                                *)
(***************************************************************************)
Root == "/"
Paths == {"/d", "/d/f", "/g", "/g/f"}

Parent(p) ==
    CASE p = "/d/f" -> "/d"
      [] p = "/g/f" -> "/g"
      [] OTHER -> Root

Name(p) ==
    CASE p = "/d" -> "d"
      [] p = "/g" -> "g"
      [] OTHER -> "f"

\* q is p or lies below p.
IsUnder(q, p) == q = p \/ Parent(q) = p

NoEntry == [kind |-> "none"]
DirEntry == [kind |-> "dir"]
FileEntry(bytes) == [kind |-> "file", bytes |-> bytes]

IsDir(fs, p) == p = Root \/ fs[p].kind = "dir"
Exists(fs, p) == p = Root \/ fs[p].kind # "none"

\* How a host call settles: fulfilled with a value, or rejected with an error
\* whose message is `message`; `fs` is the tree it leaves.
Fulfilled(fs, value) ==
    [ok |-> TRUE, fs |-> fs, value |-> value, message |-> <<>>, injected |-> FALSE]
Rejected(fs, message) ==
    [ok |-> FALSE, fs |-> fs, value |-> Undefined, message |-> message, injected |-> FALSE]

\* FileSystem.readAsStringAsync(path, { encoding })
readAsStringAsync(fs, path, options) ==
    IF ~Exists(fs, path) THEN Rejected(fs, <<"ENOENT">>)
    ELSE IF fs[path].kind = "dir" THEN Rejected(fs, <<"EISDIR">>)
    ELSE IF options.encoding = Str(base64)
         THEN Fulfilled(fs, Base64Encode(fs[path].bytes))
         ELSE Fulfilled(fs, Utf8Decode(fs[path].bytes))

\* FileSystem.writeAsStringAsync(path, data, { encoding }): creates or
\* truncates the file; the directory holding it must exist.
writeAsStringAsync(fs, path, data, options) ==
    IF ~Exists(fs, Parent(path)) THEN Rejected(fs, <<"ENOENT">>)
    ELSE IF ~IsDir(fs, Parent(path)) THEN Rejected(fs, <<"ENOTDIR">>)
    ELSE IF fs[path].kind = "dir" THEN Rejected(fs, <<"EISDIR">>)
    ELSE IF options.encoding = Str(base64)
         THEN IF Base64Decode(data).ok
              THEN Fulfilled([fs EXCEPT ![path] = FileEntry(Base64Decode(data).bytes)], Undefined)
              ELSE Rejected(fs, <<"EINVAL">>)
         ELSE Fulfilled([fs EXCEPT ![path] = FileEntry(Utf8Encode(data))], Undefined)

\* FileSystem.deleteAsync(path): removes the entry and all below it; a
\* missing entry is an error (the idempotent option is off by default).
deleteAsync(fs, path) ==
    IF ~Exists(fs, path) THEN Rejected(fs, <<"ENOENT">>)
    ELSE Fulfilled([q \in Paths |-> IF IsUnder(q, path) THEN NoEntry ELSE fs[q]], Undefined)

Num(n) == [t |-> "number", n |-> n]

EmptyObject == Obj([k \in {} |-> Undefined])

\* FileSystem.getInfoAsync(path, options = {}): never fails on a missing
\* entry; a directory's size is computed only when options.size is set; the
\* info object has no isFile property.
getInfoAsync(fs, path, options) ==
    IF ~Exists(fs, path)
    THEN Fulfilled(fs, Obj([exists |-> Bool(FALSE), isDirectory |-> Bool(FALSE)]))
    ELSE IF fs[path].kind = "file"
    THEN Fulfilled(fs, Obj([exists |-> Bool(TRUE), isDirectory |-> Bool(FALSE),
                            size |-> Num(Len(fs[path].bytes)),
                            modificationTime |-> Num(0)]))
    ELSE IF Truthy(Get(Default(options, EmptyObject), "size"))
    THEN Fulfilled(fs, Obj([exists |-> Bool(TRUE), isDirectory |-> Bool(TRUE),
                            size |-> Num(0), modificationTime |-> Num(0)]))
    ELSE Fulfilled(fs, Obj([exists |-> Bool(TRUE), isDirectory |-> Bool(TRUE),
                            modificationTime |-> Num(0)]))

\* The entry that lands on q when `from` is moved or copied to `to`.
Landed(fs, q, from, to) ==
    IF q = to THEN fs[from]
    ELSE IF \E r \in Paths : Parent(r) = from /\ Name(r) = Name(q)
         THEN fs[CHOOSE r \in Paths : Parent(r) = from /\ Name(r) = Name(q)]
         ELSE NoEntry

Transferable(fs, from, to) ==
    IF ~Exists(fs, from) THEN <<"ENOENT">>
    ELSE IF IsUnder(to, from) \/ IsUnder(from, to) THEN <<"EINVAL">>
    ELSE IF ~IsDir(fs, Parent(to)) THEN <<"ENOENT">>
    ELSE <<>>

\* FileSystem.moveAsync({ from, to }): the destination is replaced.
moveAsync(fs, options) ==
    LET from == options.from
        to == options.to
    IN  IF Transferable(fs, from, to) # <<>> THEN Rejected(fs, Transferable(fs, from, to))
        ELSE Fulfilled([q \in Paths |->
                          IF IsUnder(q, to) THEN Landed(fs, q, from, to)
                          ELSE IF IsUnder(q, from) THEN NoEntry
                          ELSE fs[q]], Undefined)

\* FileSystem.copyAsync({ from, to }): as moveAsync, the source is kept.
copyAsync(fs, options) ==
    LET from == options.from
        to == options.to
    IN  IF Transferable(fs, from, to) # <<>> THEN Rejected(fs, Transferable(fs, from, to))
        ELSE Fulfilled([q \in Paths |->
                          IF IsUnder(q, to) THEN Landed(fs, q, from, to) ELSE fs[q]],
                       Undefined)

\* FileSystem.makeDirectoryAsync(path, { intermediates }): a missing parent
\* is created only when `intermediates` is truthy.
makeDirectoryAsync(fs, path, options) ==
    IF Exists(fs, path)
    THEN IF Truthy(options.intermediates) /\ IsDir(fs, path)
         THEN Fulfilled(fs, Undefined)
         ELSE Rejected(fs, <<"EEXIST">>)
    ELSE IF IsDir(fs, Parent(path))
         THEN Fulfilled([fs EXCEPT ![path] = DirEntry], Undefined)
    ELSE IF Exists(fs, Parent(path)) THEN Rejected(fs, <<"ENOTDIR">>)
    ELSE IF Truthy(options.intermediates)
         THEN Fulfilled([q \in Paths |-> IF IsUnder(path, q) THEN DirEntry ELSE fs[q]],
                        Undefined)
         ELSE Rejected(fs, <<"ENOENT">>)

\* FileSystem.readDirectoryAsync(path): the names of the entries in it.
readDirectoryAsync(fs, path) ==
    IF ~Exists(fs, path) THEN Rejected(fs, <<"ENOENT">>)
    ELSE IF ~IsDir(fs, path) THEN Rejected(fs, <<"ENOTDIR">>)
    ELSE Fulfilled(fs, IF \E q \in Paths : Parent(q) = path /\ Exists(fs, q)
                       THEN <<"f">> ELSE <<>>)

\* Any host call may also fail for a reason of the device's own (I/O error,
\* permission): `fault` is that failure's message, or "none".
Faults == {"EIO"}
Settle(natural, fs, fault) ==
    IF fault = "none" THEN natural
    ELSE [ok |-> FALSE, fs |-> fs, value |-> Undefined, message |-> <<fault>>,
          injected |-> TRUE]

(***************************************************************************)
(* The facade's callers.  A call of an async method suspends its caller at *)
(* each await until the host call settles; callers interleave only there.  *)
(***************************************************************************)
Tasks == {1, 2}

NoFrame == [op |-> "none"]
NoResult == [op |-> "none"]
None == [text |-> <<>>, encoding |-> Undefined, set |-> FALSE]
Off == [st |-> "off"]
\* raced[t]: "no" outside an append's write step; "armed" once the read step
\* has settled; "raced" when unlink of the same path then succeeded, with the
\* entry it removed; "spoiled" when any other mutating call touched the path.
NotRaced == [st |-> "no", entry |-> NoEntry]

Returned(value) == [status |-> "returned", value |-> value, message |-> <<>>]
Threw(message) == [status |-> "threw", value |-> Undefined, message |-> message]

Idle(t) == t \in callers /\ pc[t] = "idle" /\ calls < MaxCalls

FaultChoice == {"none"} \cup (IF faults < MaxFaults THEN Faults ELSE {})

\* What a settling call does to the histories: `named` are the paths a
\* mutating host call named, `written` the writeFile that completed (at most
\* one), `created` and `unlinked` the paths a successful call created or
\* deleted.
Quiet == [named |-> {}, written |-> {}, created |-> {}, unlinked |-> {}]

Disturbed(p, named) == \E q \in named : IsUnder(p, q)

PairDisturb(named) == [p \in Paths |-> IF Disturbed(p, named) THEN Off ELSE pair[p]]

\* The caller t issues a call: it is suspended at `label` with `locals`.
Begin(t, label, locals) ==
    /\ Idle(t)
    /\ pc' = [pc EXCEPT ![t] = label]
    /\ frame' = [frame EXCEPT ![t] = locals]
    /\ result' = [result EXCEPT ![t] = NoResult]
    /\ calls' = calls + 1
    /\ raced' = [raced EXCEPT ![t] = NotRaced]
    /\ UNCHANGED <<files, detached, unhandled, faults, callers, lastWrite, gone>>

\* The call of t settles with `outcome` after the host call settled as r.
Finish(t, op, outcome, r, eff, pairNext) ==
    /\ pc' = [pc EXCEPT ![t] = "idle"]
    /\ frame' = [frame EXCEPT ![t] = NoFrame]
    /\ files' = r.fs
    /\ faults' = IF r.injected THEN faults + 1 ELSE faults
    /\ result' = [result EXCEPT ![t] =
                    [op |-> op, args |-> frame[t], status |-> outcome.status,
                     value |-> outcome.value, message |-> outcome.message,
                     hostError |-> r.message, injected |-> r.injected,
                     stage |-> pc[t], raced |-> raced[t],
                     gone |-> op = "exists" /\ gone[frame[t].path],
                     existed |-> op = "exists" /\ Exists(files, frame[t].path),
                     fresh |-> op = "readFile" /\ frame[t].expect.set
                               /\ lastWrite[frame[t].path] = frame[t].expect,
                     touched |-> r.fs # files,
                     after |-> IF op = "appendFile" THEN r.fs[frame[t].path] ELSE NoEntry,
                     parentMissing |-> op = "mkdir" /\ ~Exists(files, Parent(frame[t].path))]]
    /\ lastWrite' = [p \in Paths |->
                       IF \E w \in eff.written : w.path = p
                       THEN [text |-> (CHOOSE w \in eff.written : w.path = p).text,
                             encoding |-> (CHOOSE w \in eff.written : w.path = p).encoding,
                             set |-> TRUE]
                       ELSE IF Disturbed(p, eff.named) THEN None ELSE lastWrite[p]]
    /\ gone' = [p \in Paths |->
                  IF p \in eff.created THEN FALSE
                  ELSE IF \E q \in eff.unlinked : IsUnder(p, q) THEN TRUE ELSE gone[p]]
    /\ raced' = [u \in Tasks |->
                   IF u = t \/ pc[u] # "appendFile_write" THEN NotRaced
                   ELSE IF raced[u].st = "armed" /\ frame[u].path \in eff.unlinked
                        THEN [st |-> "raced", entry |-> files[frame[u].path]]
                   ELSE IF Disturbed(frame[u].path, eff.named)
                        THEN [st |-> "spoiled", entry |-> NoEntry]
                   ELSE raced[u]]
    /\ pair' = pairNext
    /\ UNCHANGED <<detached, unhandled, calls, callers>>

(***************************************************************************)
(* readFile (fs.js:10-19)                                                  *)
(***************************************************************************)
\* Mutant of readFileEncoding: the fallback is the other member of the enum.
readFileEncoding_FallbackBase64(encoding) ==
    Or(Get(EncodingType, toUpperCase(encoding).s), Get(EncodingType, KeyBase64))

\* fs.js:13  FileSystem.EncodingType[encoding.toUpperCase()] || FileSystem.EncodingType.UTF8
readFileEncoding(encoding) ==
    Or(Get(EncodingType, toUpperCase(encoding).s), Get(EncodingType, KeyUTF8))

\* Mutant of readFileSettled: a failed read is taken for an empty file.
readFileSettled_Swallowing(path, r) ==
    IF r.ok THEN Returned(r.value) ELSE Returned(<<>>)

\* fs.js:15-17  return content / throw new Error(`Failed to read file at ...`)
readFileSettled(path, r) ==
    IF r.ok THEN Returned(r.value)
    ELSE Threw(<<"Failed", "to", "read", "file", "at", path, ":">> \o r.message)

readFile(t, path, encoding) ==
    /\ Begin(t, "readFile",
             [path |-> path, encoding |-> encoding,
              options |-> [encoding |-> readFileEncoding(Default(encoding, Str(utf8)))],
              expect |-> lastWrite[path]])
    /\ UNCHANGED pair

readFile_await(t) ==
    /\ pc[t] = "readFile"
    /\ \E fault \in FaultChoice :
         LET r == Settle(readAsStringAsync(files, frame[t].path, frame[t].options),
                         files, fault)
         IN  Finish(t, "readFile", readFileSettled(frame[t].path, r), r, Quiet, pair)

(***************************************************************************)
(* writeFile (fs.js:28-36)                                                 *)
(***************************************************************************)
\* fs.js:31
writeFileEncoding(encoding) ==
    Or(Get(EncodingType, toUpperCase(encoding).s), Get(EncodingType, KeyUTF8))

\* Mutant of writeFileSettled: the host's message is left out of the error.
writeFileSettled_NoCause(path, r) ==
    IF r.ok THEN Returned(Undefined)
    ELSE Threw(<<"Failed", "to", "write", "file", "at", path, ":">>)

\* fs.js:33-35
writeFileSettled(path, r) ==
    IF r.ok THEN Returned(Undefined)
    ELSE Threw(<<"Failed", "to", "write", "file", "at", path, ":">> \o r.message)

\* The histories after the host write of `data` at `path` settled as r.
WriteEffect(path, data, encoding, r) ==
    [named |-> {path},
     written |-> IF r.ok THEN {[path |-> path, text |-> data, encoding |-> encoding]} ELSE {},
     created |-> IF r.ok THEN {path} ELSE {},
     unlinked |-> {}]

writeFile(t, path, data, encoding) ==
    /\ Begin(t, "writeFile",
             [path |-> path, data |-> data, encoding |-> encoding,
              options |-> [encoding |-> writeFileEncoding(Default(encoding, Str(utf8)))]])
    /\ UNCHANGED pair

writeFile_await(t) ==
    /\ pc[t] = "writeFile"
    /\ \E fault \in FaultChoice :
         LET f == frame[t]
             r == Settle(writeAsStringAsync(files, f.path, f.data, f.options), files, fault)
         IN  Finish(t, "writeFile", writeFileSettled(f.path, r), r,
                    WriteEffect(f.path, f.data, f.encoding, r), PairDisturb({f.path}))

(***************************************************************************)
(* appendFile (fs.js:44-51): fs.readFile(path), then                       *)
(* fs.writeFile(path, existingData + data), both with the default encoding.*)
(***************************************************************************)
\* fs.js:49
appendFileThrew(path, message) ==
    Threw(<<"Failed", "to", "append", "file", "at", path, ":">> \o message)

\* Mutants of appendFileData: the operands swapped; the read content dropped.
appendFileData_Prepending(existingData, data) == data \o existingData
appendFileData_Overwriting(existingData, data) == data

\* fs.js:47  existingData + data
appendFileData(existingData, data) == existingData \o data

\* The pair history when t calls appendFile(path, data).
PairCall(t, path, data) ==
    [p \in Paths |->
       IF p # path THEN pair[p]
       ELSE CASE pair[p].st = "one" ->
                   [st |-> "two", t1 |-> pair[p].t1, t2 |-> t, a |-> pair[p].a,
                    b |-> data, c |-> pair[p].c, overlap |-> TRUE,
                    done1 |-> FALSE, done2 |-> FALSE, returned |-> TRUE]
              [] pair[p].st = "first" ->
                   [st |-> "two", t1 |-> pair[p].t1, t2 |-> t, a |-> pair[p].a,
                    b |-> data, c |-> pair[p].c, overlap |-> FALSE,
                    done1 |-> TRUE, done2 |-> FALSE, returned |-> pair[p].returned]
              [] pair[p].st = "two" /\ ~(pair[p].done1 /\ pair[p].done2) -> Off
              [] OTHER -> [st |-> "one", t1 |-> t, a |-> data, c |-> files[p]]]

\* The pair history when the appendFile of t on path settles.
PairSettle(t, path, hostOk, returned) ==
    [p \in Paths |->
       IF p # path THEN (IF Disturbed(p, {path}) THEN Off ELSE pair[p])
       ELSE IF ~hostOk THEN Off
       ELSE CASE pair[p].st = "one" /\ pair[p].t1 = t ->
                   [st |-> "first", t1 |-> t, a |-> pair[p].a, c |-> pair[p].c,
                    returned |-> returned]
              [] pair[p].st = "two" /\ ~pair[p].done1 /\ pair[p].t1 = t ->
                   [pair[p] EXCEPT !.done1 = TRUE, !.returned = @ /\ returned]
              [] pair[p].st = "two" /\ ~pair[p].done2 /\ pair[p].t2 = t ->
                   [pair[p] EXCEPT !.done2 = TRUE, !.returned = @ /\ returned]
              [] OTHER -> Off]

appendFile(t, path, data) ==
    /\ Begin(t, "appendFile_read",
             [path |-> path, data |-> data,
              options |-> [encoding |-> readFileEncoding(Default(Undefined, Str(utf8)))]])
    /\ pair' = PairCall(t, path, data)

\* fs.js:46 settles: the read content is kept and the write is issued, or
\* the read error is wrapped and thrown.
appendFile_read(t) ==
    /\ pc[t] = "appendFile_read"
    /\ \E fault \in FaultChoice :
         LET f == frame[t]
             r == Settle(readAsStringAsync(files, f.path, f.options), files, fault)
             o == readFileSettled(f.path, r)
         IN  IF o.status = "returned"
             THEN /\ pc' = [pc EXCEPT ![t] = "appendFile_write"]
                  /\ frame' = [frame EXCEPT ![t] =
                                 [path |-> f.path, data |-> f.data,
                                  read |-> [ok |-> r.ok, value |-> r.value],
                                  existingData |-> o.value,
                                  writeData |-> appendFileData(o.value, f.data),
                                  options |-> [encoding |->
                                      writeFileEncoding(Default(Undefined, Str(utf8)))]]]
                  /\ raced' = [raced EXCEPT ![t] = [st |-> "armed", entry |-> NoEntry]]
                  /\ UNCHANGED <<files, result, detached, unhandled, calls, faults,
                                 callers, lastWrite, pair, gone>>
             ELSE Finish(t, "appendFile", appendFileThrew(f.path, o.message), r, Quiet,
                         [pair EXCEPT ![f.path] = Off])

\* fs.js:47 settles.
appendFile_write(t) ==
    /\ pc[t] = "appendFile_write"
    /\ \E fault \in FaultChoice :
         LET f == frame[t]
             r == Settle(writeAsStringAsync(files, f.path, f.writeData, f.options),
                         files, fault)
             o == writeFileSettled(f.path, r)
             outcome == IF o.status = "returned" THEN Returned(Undefined)
                        ELSE appendFileThrew(f.path, o.message)
         IN  Finish(t, "appendFile", outcome, r,
                    WriteEffect(f.path, f.writeData, Undefined, r),
                    PairSettle(t, f.path, r.ok, outcome.status = "returned"))

(***************************************************************************)
(* unlink (fs.js:58-64)                                                    *)
(***************************************************************************)
\* fs.js:60-62
unlinkSettled(path, r) ==
    IF r.ok THEN Returned(Undefined)
    ELSE Threw(<<"Failed", "to", "delete", "file", "at", path, ":">> \o r.message)

unlink(t, path) ==
    /\ Begin(t, "unlink", [path |-> path])
    /\ UNCHANGED pair

unlink_await(t) ==
    /\ pc[t] = "unlink"
    /\ \E fault \in FaultChoice :
         LET f == frame[t]
             r == Settle(deleteAsync(files, f.path), files, fault)
         IN  Finish(t, "unlink", unlinkSettled(f.path, r), r,
                    [named |-> {f.path}, written |-> {}, created |-> {},
                     unlinked |-> IF r.ok THEN {f.path} ELSE {}],
                    PairDisturb({f.path}))

(***************************************************************************)
(* exists (fs.js:71-78)                                                    *)
(***************************************************************************)
\* Mutant of existsSettled: the host failure is wrapped and thrown, as in the
\* other methods.
existsSettled_Throwing(r) ==
    IF r.ok THEN Returned(Get(r.value, "exists"))
    ELSE Threw(<<"Failed", "to", "check", "file", "at", "path", ":">> \o r.message)

\* fs.js:74, 76
existsSettled(r) ==
    IF r.ok THEN Returned(Get(r.value, "exists")) ELSE Returned(Bool(FALSE))

exists(t, path) ==
    /\ Begin(t, "exists", [path |-> path])
    /\ UNCHANGED pair

exists_await(t) ==
    /\ pc[t] = "exists"
    /\ \E fault \in FaultChoice :
         LET r == Settle(getInfoAsync(files, frame[t].path, Undefined),
                         files, fault)
         IN  Finish(t, "exists", existsSettled(r), r, Quiet, pair)

(***************************************************************************)
(* rename (fs.js:86-92) and copyFile (fs.js:147-153)                       *)
(***************************************************************************)
renameSettled(oldPath, newPath, r) ==
    IF r.ok THEN Returned(Undefined)
    ELSE Threw(<<"Failed", "to", "rename", "file", "from", oldPath, "to", newPath, ":">>
               \o r.message)

copyFileSettled(srcPath, destPath, r) ==
    IF r.ok THEN Returned(Undefined)
    ELSE Threw(<<"Failed", "to", "copy", "file", "from", srcPath, "to", destPath, ":">>
               \o r.message)

\* The histories after `from` was moved or copied to `to`.
TransferEffect(from, to, moved, r) ==
    [named |-> IF moved THEN {from, to} ELSE {to},
     written |-> {},
     created |-> IF r.ok
                 THEN {p \in Paths : IsUnder(p, to) /\ Landed(files, p, from, to) # NoEntry}
                 ELSE {},
     unlinked |-> {}]

rename(t, oldPath, newPath) ==
    /\ Begin(t, "rename", [path |-> oldPath, newPath |-> newPath])
    /\ UNCHANGED pair

rename_await(t) ==
    /\ pc[t] = "rename"
    /\ \E fault \in FaultChoice :
         LET f == frame[t]
             r == Settle(moveAsync(files, [from |-> f.path, to |-> f.newPath]), files, fault)
         IN  Finish(t, "rename", renameSettled(f.path, f.newPath, r), r,
                    TransferEffect(f.path, f.newPath, TRUE, r),
                    PairDisturb({f.path, f.newPath}))

copyFile(t, srcPath, destPath) ==
    /\ Begin(t, "copyFile", [path |-> srcPath, destPath |-> destPath])
    /\ UNCHANGED pair

copyFile_await(t) ==
    /\ pc[t] = "copyFile"
    /\ \E fault \in FaultChoice :
         LET f == frame[t]
             r == Settle(copyAsync(files, [from |-> f.path, to |-> f.destPath]), files, fault)
         IN  Finish(t, "copyFile", copyFileSettled(f.path, f.destPath, r), r,
                    TransferEffect(f.path, f.destPath, FALSE, r),
                    PairDisturb({f.destPath}))

(***************************************************************************)
(* mkdir (fs.js:100-106)                                                   *)
(***************************************************************************)
\* fs.js:100, 102  options = { recursive: true };  { intermediates: options.recursive }
mkdirIntermediates(options) ==
    Get(Default(options, Obj([recursive |-> Bool(TRUE)])), "recursive")

mkdirSettled(path, r) ==
    IF r.ok THEN Returned(Undefined)
    ELSE Threw(<<"Failed", "to", "create", "directory", "at", path, ":">> \o r.message)

mkdir(t, path, options) ==
    /\ Begin(t, "mkdir",
             [path |-> path, options |-> options,
              hostOptions |-> [intermediates |-> mkdirIntermediates(options)]])
    /\ UNCHANGED pair

mkdir_await(t) ==
    /\ pc[t] = "mkdir"
    /\ \E fault \in FaultChoice :
         LET f == frame[t]
             r == Settle(makeDirectoryAsync(files, f.path, f.hostOptions), files, fault)
             made == {p \in Paths : IsUnder(f.path, p) /\ ~Exists(files, p)}
         IN  Finish(t, "mkdir",
                    mkdirSettled(f.path, r), r,
                    [named |-> {f.path} \cup made, written |-> {},
                     created |-> IF r.ok THEN made ELSE {}, unlinked |-> {}],
                    PairDisturb({f.path} \cup made))

(***************************************************************************)
(* readdir (fs.js:113-120) and stat (fs.js:127-139)                        *)
(***************************************************************************)
readdirSettled(path, r) ==
    IF r.ok THEN Returned(r.value)
    ELSE Threw(<<"Failed", "to", "read", "directory", "at", path, ":">> \o r.message)

readdir(t, path) ==
    /\ Begin(t, "readdir", [path |-> path])
    /\ UNCHANGED pair

readdir_await(t) ==
    /\ pc[t] = "readdir"
    /\ \E fault \in FaultChoice :
         LET r == Settle(readDirectoryAsync(files, frame[t].path), files, fault)
         IN  Finish(t, "readdir", readdirSettled(frame[t].path, r), r, Quiet, pair)

\* fs.js:130-137: isFile() and isDirectory() return the info's properties.
statSettled(path, r) ==
    IF r.ok
    THEN Returned(Obj([isFile |-> Get(r.value, "isFile"),
                       isDirectory |-> Get(r.value, "isDirectory"),
                       size |-> Get(r.value, "size"),
                       modificationTime |-> Get(r.value, "modificationTime")]))
    ELSE Threw(<<"Failed", "to", "retrieve", "stats", "for", path, ":">> \o r.message)

stat(t, path) ==
    /\ Begin(t, "stat", [path |-> path])
    /\ UNCHANGED pair

stat_await(t) ==
    /\ pc[t] = "stat"
    /\ \E fault \in FaultChoice :
         LET r == Settle(getInfoAsync(files, frame[t].path, Obj([size |-> Bool(TRUE)])),
                         files, fault)
         IN  Finish(t, "stat", statSettled(frame[t].path, r), r, Quiet, pair)

(***************************************************************************)
(* existsSync (fs.js:160-168) and readFileSync (fs.js:176-186): the host   *)
(* call is issued, its promise chain is left behind, and the local is      *)
(* returned at once.  The chain's callbacks run when the host call         *)
(* settles, which is never before the synchronous return.                  *)
(***************************************************************************)
\* fs.js:179
readFileSyncEncoding(encoding) ==
    Or(Get(EncodingType, toUpperCase(encoding).s), Get(EncodingType, KeyUTF8))

\* Mutant of LocalAtReturn: the value the local would hold had the host call
\* settled before the return statement.
LocalAtReturn_Settled(chain) ==
    IF chain.op = "existsSync"
    THEN Get(getInfoAsync(files, chain.path, Undefined).value, "exists")
    ELSE IF readAsStringAsync(files, chain.path, chain.options).ok
         THEN readAsStringAsync(files, chain.path, chain.options).value
         ELSE chain.local

\* The value of the local at the return statement (fs.js:167, 185): the one
\* it was initialised with, as no callback has run.
LocalAtReturn(chain) == chain.local

ReturnSync(t, chain) ==
    /\ detached' = detached \cup {chain}
    /\ calls' = calls + 1
    /\ result' = [result EXCEPT ![t] =
                    [op |-> chain.op,
                     args |-> [path |-> chain.path, encoding |-> chain.encoding],
                     status |-> "returned", value |-> LocalAtReturn(chain),
                     message |-> <<>>, pending |-> chain \in detached']]
    /\ UNCHANGED <<files, pc, frame, unhandled, faults, callers, lastWrite, pair,
                   raced, gone>>

existsSync(t, path) ==
    /\ Idle(t)
    /\ ReturnSync(t, [id |-> calls, op |-> "existsSync", path |-> path,
                      encoding |-> Undefined, options |-> Undefined,
                      local |-> Bool(FALSE)])

readFileSync(t, path, encoding) ==
    /\ Idle(t)
    /\ ReturnSync(t, [id |-> calls, op |-> "readFileSync", path |-> path,
                      encoding |-> encoding,
                      options |-> [encoding |->
                                     readFileSyncEncoding(Default(encoding, Str(utf8)))],
                      local |-> <<>>])

\* fs.js:162-166: .then assigns the local, .catch assigns false; nothing
\* reads the local afterwards.
existsSync_then ==
    \E chain \in detached, fault \in FaultChoice :
        LET r == Settle(getInfoAsync(files, chain.path, Undefined), files, fault)
        IN  /\ chain.op = "existsSync"
            /\ detached' = detached \ {chain}
            /\ faults' = IF r.injected THEN faults + 1 ELSE faults
            /\ UNCHANGED <<files, pc, frame, result, unhandled, calls, callers,
                           lastWrite, pair, raced, gone>>

\* fs.js:180-184: .then assigns the local; .catch throws inside the chain,
\* which rejects a promise nobody holds.
readFileSync_then ==
    \E chain \in detached, fault \in FaultChoice :
        LET r == Settle(readAsStringAsync(files, chain.path, chain.options), files, fault)
        IN  /\ chain.op = "readFileSync"
            /\ detached' = detached \ {chain}
            /\ faults' = IF r.injected THEN faults + 1 ELSE faults
            /\ unhandled' = IF r.ok THEN unhandled
                            ELSE unhandled \cup {readFileSettled(chain.path, r).message}
            /\ UNCHANGED <<files, pc, frame, result, calls, callers,
                           lastWrite, pair, raced, gone>>

(***************************************************************************)
(* The arguments callers pass, and the trees a run may start from.         *)
(***************************************************************************)
OpPaths == {"/d", "/d/f"}
Transfers == {<<"/d/f", "/g">>, <<"/d", "/g">>}
Texts == {<<97>>, <<233>>}                          \* 'a', 'é'
EncodingArgs == {Undefined, Str(utf8), Str(base64)}
MkdirOptions == {Undefined, EmptyObject,
                 Obj([recursive |-> Bool(TRUE)]), Obj([recursive |-> Bool(FALSE)])}

Tree(d, f) == [p \in Paths |-> IF p = "/d" THEN d ELSE IF p = "/d/f" THEN f ELSE NoEntry]
InitFiles == {Tree(NoEntry, NoEntry), Tree(DirEntry, NoEntry),
              Tree(DirEntry, FileEntry(<<>>)), Tree(DirEntry, FileEntry(<<99>>))}

InitWith(active) ==
    /\ files \in InitFiles
    /\ pc = [t \in Tasks |-> "idle"]
    /\ frame = [t \in Tasks |-> NoFrame]
    /\ result = [t \in Tasks |-> NoResult]
    /\ detached = {}
    /\ unhandled = {}
    /\ calls = 0
    /\ faults = 0
    /\ callers = active
    /\ lastWrite = [p \in Paths |-> None]
    /\ pair = [p \in Paths |-> Off]
    /\ raced = [t \in Tasks |-> FALSE]
    /\ gone = [p \in Paths |-> files[p] = NoEntry]

(***************************************************************************)
(* Spec: two callers whose calls of readFile, writeFile, appendFile,       *)
(* unlink and exists overlap in every way the awaits allow.                *)
(***************************************************************************)
Init == InitWith(Tasks)

Next ==
    \/ \E t \in Tasks, path \in OpPaths, encoding \in EncodingArgs :
         readFile(t, path, encoding)
    \/ \E t \in Tasks : readFile_await(t)
    \/ \E t \in Tasks, path \in OpPaths, data \in Texts, encoding \in EncodingArgs :
         writeFile(t, path, data, encoding)
    \/ \E t \in Tasks : writeFile_await(t)
    \/ \E t \in Tasks, path \in OpPaths, data \in Texts : appendFile(t, path, data)
    \/ \E t \in Tasks : appendFile_read(t)
    \/ \E t \in Tasks : appendFile_write(t)
    \/ \E t \in Tasks, path \in OpPaths : unlink(t, path)
    \/ \E t \in Tasks : unlink_await(t)
    \/ \E t \in Tasks, path \in OpPaths : exists(t, path)
    \/ \E t \in Tasks : exists_await(t)

Spec == Init /\ [][Next]_vars

(***************************************************************************)
(* SpecFacade: one caller that awaits each call before the next, over the  *)
(* whole facade; the chains of the pseudo-synchronous methods still settle *)
(* at any later time.                                                      *)
(***************************************************************************)
InitFacade == InitWith({1})

NextFacade ==
    \/ Next
    \/ \E t \in Tasks, tr \in Transfers : rename(t, tr[1], tr[2])
    \/ \E t \in Tasks : rename_await(t)
    \/ \E t \in Tasks, tr \in Transfers : copyFile(t, tr[1], tr[2])
    \/ \E t \in Tasks : copyFile_await(t)
    \/ \E t \in Tasks, path \in OpPaths, options \in MkdirOptions : mkdir(t, path, options)
    \/ \E t \in Tasks : mkdir_await(t)
    \/ \E t \in Tasks, path \in OpPaths : readdir(t, path)
    \/ \E t \in Tasks : readdir_await(t)
    \/ \E t \in Tasks, path \in OpPaths : stat(t, path)
    \/ \E t \in Tasks : stat_await(t)
    \/ \E t \in Tasks, path \in OpPaths : existsSync(t, path)
    \/ existsSync_then
    \/ \E t \in Tasks, path \in OpPaths, encoding \in EncodingArgs :
         readFileSync(t, path, encoding)
    \/ readFileSync_then

SpecFacade == InitFacade /\ [][NextFacade]_vars

(***************************************************************************)
(* Properties.                                                             *)
(***************************************************************************)
\* m is the tail of msg.
EndsWith(msg, m) ==
    Len(msg) >= Len(m) /\ SubSeq(msg, Len(msg) - Len(m) + 1, Len(msg)) = m

\* The text held by a file entry.
TextOf(entry) == Utf8Decode(entry.bytes)

\* C1 (round trip): when writeFile(path, text, enc) has completed and
\* readFile(path, enc), called afterwards with the same encoding argument and
\* with no mutating call on the path from the write's completion to the
\* read's, returns, it returns exactly text; for every encoding argument.
C1_RoundTrip ==
    \A t \in Tasks :
        (result[t].op = "readFile" /\ result[t].status = "returned" /\ result[t].fresh
         /\ result[t].args.expect.encoding = result[t].args.encoding)
        => result[t].value = result[t].args.expect.text

\* A read with the name 'base64' that returned the multi-byte text written
\* under the same name.
C1_Witness ==
    \E t \in Tasks :
        /\ result[t].op = "readFile" /\ result[t].status = "returned" /\ result[t].fresh
        /\ result[t].args.encoding = Str(base64)
        /\ result[t].args.expect.encoding = Str(base64)
        /\ result[t].value = <<233>>

\* The two appends on path p were strictly sequenced and both completed.
Sequenced(p) ==
    /\ pair[p].st = "two" /\ ~pair[p].overlap
    /\ pair[p].done1 /\ pair[p].done2 /\ pair[p].returned

\* C2 (sequential append): on a file that exists with empty content,
\* appendFile(path, a) awaited to completion and then appendFile(path, b)
\* awaited to completion, with no other mutating call on the path, leave the
\* content a followed by b.
C2_SequentialAppend ==
    \A p \in Paths :
        (Sequenced(p) /\ pair[p].c = FileEntry(<<>>))
        => (files[p].kind = "file" /\ TextOf(files[p]) = pair[p].a \o pair[p].b)

C2_Witness ==
    \E p \in Paths :
        /\ Sequenced(p) /\ pair[p].c = FileEntry(<<>>)
        /\ pair[p].a = <<97>> /\ pair[p].b = <<233>>

\* The two appends on path p overlapped, every host call of both succeeded,
\* and both have settled.
Overlapped(p) ==
    pair[p].st = "two" /\ pair[p].overlap /\ pair[p].done1 /\ pair[p].done2

\* C3 (lost update): two overlapping appendFile calls with data a and b on a
\* path with content c, all host calls succeeding, leave c+a+b, c+b+a, c+a
\* or c+b, and neither call reports an error.
C3_OverlappingAppends ==
    \A p \in Paths :
        Overlapped(p)
        => /\ pair[p].returned
           /\ pair[p].c.kind = "file"
           /\ files[p].kind = "file"
           /\ LET c == TextOf(pair[p].c)
                  a == pair[p].a
                  b == pair[p].b
              IN  TextOf(files[p]) \in {c \o a \o b, c \o b \o a, c \o a, c \o b}

\* One of the two updates is lost, and nobody was told.
C3_Witness ==
    \E p \in Paths :
        /\ Overlapped(p) /\ pair[p].returned
        /\ pair[p].c = FileEntry(<<99>>)
        /\ pair[p].a # pair[p].b
        /\ TextOf(files[p]) = TextOf(pair[p].c) \o pair[p].a

Wrapping == {"readFile", "writeFile", "appendFile", "unlink", "rename", "mkdir",
             "readdir", "stat", "copyFile"}

\* The path arguments of a settled call, in order.
PathsOf(res) ==
    IF res.op = "rename" THEN <<res.args.path, res.args.newPath>>
    ELSE IF res.op = "copyFile" THEN <<res.args.path, res.args.destPath>>
    ELSE <<res.args.path>>

\* msg reads  Failed to <verb> <noun> <preposition> <path>[ to <path>]: ...m
\* with the preposition one of `prepositions`.
FollowsPattern(msg, prepositions, paths, m) ==
    /\ Len(msg) >= 7
    /\ msg[1] = "Failed" /\ msg[2] = "to"
    /\ msg[5] \in prepositions
    /\ msg[6] = paths[1]
    /\ IF Len(paths) = 2
       THEN Len(msg) >= 9 /\ msg[7] = "to" /\ msg[8] = paths[2] /\ msg[9] = ":"
            /\ Len(msg) >= 9 + Len(m)
       ELSE msg[7] = ":" /\ Len(msg) >= 7 + Len(m)
    /\ EndsWith(msg, m)

\* C5 as stated (uniform error wrapping): each of the nine methods, when its
\* host call fails with message m, throws an error whose message is
\* "Failed to <verb> <noun> at/from <path>[ to <path>]: ..." with the caller's
\* path(s) and with m embedded.
C5_UniformPattern ==
    \A t \in Tasks :
        (result[t].op \in Wrapping /\ result[t].hostError # <<>>)
        => /\ result[t].status = "threw"
           /\ FollowsPattern(result[t].message, {"at", "from"}, PathsOf(result[t]),
                             result[t].hostError)

\* C5 as amended: the same, except that stat's message reads
\* "Failed to retrieve stats for <path>: m".
C5_WrappedErrors ==
    \A t \in Tasks :
        (result[t].op \in Wrapping /\ result[t].hostError # <<>>)
        => /\ result[t].status = "threw"
           /\ FollowsPattern(result[t].message,
                             IF result[t].op = "stat" THEN {"for"} ELSE {"at", "from"},
                             PathsOf(result[t]), result[t].hostError)

\* stat threw the host's failure under its own wording.
C5_Witness ==
    \E t \in Tasks :
        /\ result[t].op = "stat" /\ result[t].status = "threw"
        /\ result[t].message =
              <<"Failed", "to", "retrieve", "stats", "for", result[t].args.path, ":", "EIO">>

\* C6 (exists swallows failures): exists never throws; it returns false when
\* the host call fails and the host's exists flag otherwise, so false for a
\* path never created and for a path unlinked and not recreated.
C6_ExistsSwallows ==
    \A t \in Tasks :
        result[t].op = "exists"
        => /\ result[t].status = "returned"
           /\ result[t].hostError # <<>> => result[t].value = Bool(FALSE)
           /\ result[t].hostError = <<>> => result[t].value = Bool(result[t].existed)
           /\ result[t].gone => result[t].value = Bool(FALSE)

\* exists returned false for the path another call had unlinked.
C6_Witness ==
    \E t, u \in Tasks :
        /\ result[t].op = "exists" /\ result[t].gone /\ result[t].hostError = <<>>
        /\ result[t].value = Bool(FALSE)
        /\ result[u].op = "unlink" /\ result[u].status = "returned"
        /\ result[u].args.path = result[t].args.path

\* The caller supplied no value for `recursive`.
NoRecursive(options) == options = Undefined \/ "recursive" \notin DOMAIN options.fields

\* C7 (mkdir recursive default): when the parent of the path is missing and no
\* recursive value was supplied (no options argument, or an options object
\* without the field), mkdir asks the host for intermediates and succeeds;
\* with an explicit recursive: false it fails with the directory-creation
\* error.
C7_RecursiveDefault ==
    \A t \in Tasks :
        result[t].op = "mkdir"
        => /\ (NoRecursive(result[t].args.options) /\ result[t].parentMissing)
              => /\ result[t].args.hostOptions.intermediates = Bool(TRUE)
                 /\ ~result[t].injected => result[t].status = "returned"
           /\ (result[t].args.options = Obj([recursive |-> Bool(FALSE)])
               /\ result[t].parentMissing)
              => /\ result[t].status = "threw"
                 /\ FollowsPattern(result[t].message, {"at"}, PathsOf(result[t]),
                                   result[t].hostError)

\* The host encoding the claim expects for an encoding argument.
ExpectedEncoding(encoding) ==
    IF encoding # Undefined /\ toUpperCase(encoding) = toUpperCase(Str(base64))
    THEN Str(base64) ELSE Str(utf8)

\* C8 (encoding resolution): readFile, writeFile and readFileSync hand the
\* host the encoding the name stands for whatever its letter case, and UTF-8
\* for an absent or unrecognized name.
C8_EncodingResolution ==
    /\ \A t \in Tasks :
         pc[t] \in {"readFile", "writeFile"}
         => frame[t].options.encoding = ExpectedEncoding(frame[t].encoding)
    /\ \A chain \in detached :
         chain.op = "readFileSync"
         => chain.options.encoding = ExpectedEncoding(chain.encoding)

\* C9 (no write after a failed read): the host write of appendFile is issued
\* only after its read succeeded, with the read content followed by data; when
\* the read fails appendFile leaves the tree as it was and throws its append
\* error around the read error.
C9_NoWriteAfterFailedRead ==
    \A t \in Tasks :
        /\ pc[t] = "appendFile_write"
           => /\ frame[t].read.ok
              /\ frame[t].writeData = frame[t].read.value \o frame[t].data
        /\ (result[t].op = "appendFile" /\ result[t].stage = "appendFile_read")
           => /\ result[t].hostError # <<>>
              /\ ~result[t].touched
              /\ result[t].status = "threw"
              /\ result[t].message =
                    <<"Failed", "to", "append", "file", "at", result[t].args.path, ":",
                      "Failed", "to", "read", "file", "at", result[t].args.path, ":">>
                    \o result[t].hostError

\* appendFile on a path that does not exist: it threw and the path still does
\* not exist.
C9_Witness ==
    \E t \in Tasks :
        /\ result[t].op = "appendFile" /\ result[t].stage = "appendFile_read"
        /\ result[t].hostError = <<"ENOENT">>
        /\ files[result[t].args.path] = NoEntry

\* C10 (delete racing with an append): when unlink(path) succeeds between the
\* read step and the write step of appendFile(path, data), nothing else
\* touches the path and the host write succeeds, appendFile returns without
\* error and the file exists again, holding the deleted content followed by
\* data.
C10_DeleteUnderAppend ==
    \A t \in Tasks :
        (result[t].op = "appendFile" /\ result[t].raced.st = "raced"
         /\ result[t].hostError = <<>>)
        => /\ result[t].status = "returned"
           /\ result[t].raced.entry.kind = "file"
           /\ result[t].after =
                 FileEntry(result[t].raced.entry.bytes \o Utf8Encode(result[t].args.data))

\* unlink returned, and afterwards the file is there again.
C10_Witness ==
    \E t, u \in Tasks :
        /\ result[t].op = "appendFile" /\ result[t].raced.st = "raced"
        /\ result[t].status = "returned"
        /\ result[u].op = "unlink" /\ result[u].status = "returned"
        /\ result[u].args.path = result[t].args.path
        /\ Exists(files, result[t].args.path)

====
